---- MODULE Spec2Model ----
(***************************************************************************)
(* Model of the inbound-request security gate of Evalmatch's AI chat       *)
(* service: app/api/security_fixed.py (RateLimiter, sanitize_input,        *)
(* validate_api_key, validate_jwt_token, SecurityManager) and              *)
(* app/api/security_simple.py.                                             *)
(*                                                                         *)
(* Time is read from time.time(); the model uses an integer clock that     *)
(* never runs backwards.  Identifiers are strings in the code and small    *)
(* integers here.  The dict RateLimiter.requests keeps insertion order,    *)
(* which sorted() relies on to break ties, so it is a sequence of          *)
(* [id, times] entries.                                                    *)
(***************************************************************************)
EXTENDS Integers, Sequences, FiniteSets, TLC

VARIABLES
    requests,   \* RateLimiter.requests: sequence of [id, times]
    clock,      \* value time.time() returns now
    op,         \* the call that ran last: [name, ...arguments]
    result,     \* what that call returned (or "raised")
    trace,      \* what that call did, in order: log events, raise, return
    accepted,   \* history: per identifier, timestamps of accepted calls
                \*   that are still inside the trailing window
    live,       \* history: the same, counted since the identifier's last
                \*   eviction by the max_identifiers pass
    hist,       \* history: the is_allowed calls of the identifier Probe,
                \*   [now, ok] each, in call order
    pc, tid, tnow, tcount, tret, lock,   \* threads inside is_allowed
    entryCount, entryClock, accSince,    \* history of the threads' calls
    shadow,        \* RateLimiter.requests of a second limiter, the reference
                   \*   run that two-run properties compare with
    shadowResult,  \* what the last is_allowed of the reference run returned
    overflowed     \* history: more than max_identifiers identifiers were
                   \*   tracked at some point

vars == <<requests, clock, op, result, trace, accepted, live, hist,
          pc, tid, tnow, tcount, tret, lock, entryCount, entryClock, accSince,
          shadow, shadowResult, overflowed>>

refvars == <<shadow, shadowResult, overflowed>>

thvars == <<pc, tid, tnow, tcount, tret, lock, entryCount, entryClock, accSince>>

----------------------------------------------------------------------------
(* Bounds of the model.  max_requests, window_seconds and max_identifiers  *)
(* are the constructor arguments of RateLimiter, scaled down.              *)

max_requests == 2
window_seconds == 2
max_identifiers == 2
NumIdentifiers == 3
MaxTime == 4
MaxAccepted == 3
MaxCalls == 5
NumThreads == 3

Identifiers == 1..NumIdentifiers
Threads == 1..NumThreads
NoThread == {}

----------------------------------------------------------------------------
(* RateLimiter                                                              *)

Tracked(reqs) == {reqs[k].id : k \in 1..Len(reqs)}

IndexOf(reqs, identifier) ==
    CHOOSE k \in 1..Len(reqs) : reqs[k].id = identifier

TimesOf(reqs, identifier) ==
    IF identifier \in Tracked(reqs) THEN reqs[IndexOf(reqs, identifier)].times
    ELSE <<>>

InWindow_closed_at_the_lower_bound(t, now) == now - t <= window_seconds

\* [req_time for req_time in req_times if now - req_time < window]
InWindow(t, now) == now - t < window_seconds

valid_requests_keep_all(req_times, now) == req_times

valid_requests(req_times, now) == SelectSeq(req_times, LAMBDA t : InWindow(t, now))

RECURSIVE SeqMax(_)
SeqMax(s) ==
    IF Len(s) = 1 THEN s[1]
    ELSE LET m == SeqMax(Tail(s)) IN IF s[1] >= m THEN s[1] ELSE m

SortKey_least_recent_first(entry) ==
    IF entry.times # <<>> THEN 0 - SeqMax(entry.times) ELSE 0

\* key=lambda x: max(x[1]) if x[1] else 0
SortKey(entry) == IF entry.times # <<>> THEN SeqMax(entry.times) ELSE 0

\* sorted(..., reverse=True) is stable: entries with equal keys keep the
\* order they had in the dict.
RECURSIVE InsertDesc(_, _)
InsertDesc(sorted, e) ==
    IF sorted = <<>> THEN <<e>>
    ELSE IF SortKey(sorted[1]) >= SortKey(e)
         THEN <<sorted[1]>> \o InsertDesc(Tail(sorted), e)
         ELSE <<e>> \o sorted

RECURSIVE SortedDesc(_)
SortedDesc(s) ==
    IF s = <<>> THEN <<>>
    ELSE InsertDesc(SortedDesc(SubSeq(s, 1, Len(s) - 1)), s[Len(s)])

\* The sweep of _cleanup_old_requests: prune every list, drop the empty ones.
Swept(reqs, now) ==
    LET pruned == [k \in 1..Len(reqs) |->
                      [id |-> reqs[k].id, times |-> valid_requests(reqs[k].times, now)]]
    IN  SelectSeq(pruned, LAMBDA e : e.times # <<>>)

EvictionNeeded(n) == n > max_identifiers

_cleanup_old_requests(reqs, identifier, now) ==
    IF identifier \notin Tracked(reqs) THEN reqs
    ELSE LET swept == Swept(reqs, now)
         IN  IF EvictionNeeded(Len(swept))
             THEN SubSeq(SortedDesc(swept), 1, max_identifiers)
             ELSE swept

\* _get_request_count prunes the identifier's own list in place (an emptied
\* list stays in the dict) and returns its length.
PruneOne(reqs, identifier, now) ==
    IF identifier \notin Tracked(reqs) THEN reqs
    ELSE [k \in 1..Len(reqs) |->
             IF reqs[k].id = identifier
             THEN [id |-> identifier, times |-> valid_requests(reqs[k].times, now)]
             ELSE reqs[k]]

_get_request_count_with_other_identifiers(reqs, identifier, now) ==
    Len(TimesOf(PruneOne(reqs, identifier, now), identifier))
        + Cardinality(Tracked(reqs) \ {identifier})

_get_request_count(reqs, identifier, now) ==
    Len(TimesOf(PruneOne(reqs, identifier, now), identifier))

\* if identifier not in self.requests: self.requests[identifier] = []
\* self.requests[identifier].append(now)
Record(reqs, identifier, now) ==
    IF identifier \in Tracked(reqs)
    THEN [k \in 1..Len(reqs) |->
             IF reqs[k].id = identifier
             THEN [id |-> identifier, times |-> Append(reqs[k].times, now)]
             ELSE reqs[k]]
    ELSE Append(reqs, [id |-> identifier, times |-> <<now>>])

OverQuota_off_by_one(current_requests) == current_requests > max_requests

\* if current_requests >= self.max_requests: return False
OverQuota(current_requests) == current_requests >= max_requests

is_allowed_recording_rejections(reqs, identifier, now) ==
    LET cleaned == _cleanup_old_requests(reqs, identifier, now)
        counted == PruneOne(cleaned, identifier, now)
        current_requests == _get_request_count(cleaned, identifier, now)
    IN  [requests |-> Record(counted, identifier, now),
         ret |-> ~OverQuota(current_requests)]

\* The body of is_allowed, run under the lock: the table it leaves and the
\* value it returns.
is_allowed(reqs, identifier, now) ==
    LET cleaned == _cleanup_old_requests(reqs, identifier, now)
        counted == PruneOne(cleaned, identifier, now)
        current_requests == _get_request_count(cleaned, identifier, now)
    IN  IF OverQuota(current_requests)
        THEN [requests |-> counted, ret |-> FALSE]
        ELSE [requests |-> Record(counted, identifier, now), ret |-> TRUE]

get_remaining_counting_stale_requests(reqs, identifier, now) ==
    LET left == max_requests - Len(TimesOf(reqs, identifier))
    IN  [requests |-> PruneOne(reqs, identifier, now),
         ret |-> IF left > 0 THEN left ELSE 0]

get_remaining_dropping_an_emptied_list(reqs, identifier, now) ==
    LET current_requests == _get_request_count(reqs, identifier, now)
        left == max_requests - current_requests
        pruned == PruneOne(reqs, identifier, now)
    IN  [requests |-> SelectSeq(pruned, LAMBDA e : e.times # <<>>),
         ret |-> IF left > 0 THEN left ELSE 0]

get_remaining_consuming_a_request(reqs, identifier, now) ==
    LET current_requests == _get_request_count(reqs, identifier, now)
        left == max_requests - current_requests
    IN  [requests |-> Record(PruneOne(reqs, identifier, now), identifier, now),
         ret |-> IF left > 0 THEN left ELSE 0]

\* with self.lock: the count of _get_request_count (which prunes the
\* identifier's list), then max(0, self.max_requests - current_requests)
get_remaining(reqs, identifier, now) ==
    LET current_requests == _get_request_count(reqs, identifier, now)
        left == max_requests - current_requests
    IN  [requests |-> PruneOne(reqs, identifier, now),
         ret |-> IF left > 0 THEN left ELSE 0]

\* Identifiers the max_identifiers pass of a cleanup drops although their
\* window is not empty.
Evicted(reqs, identifier, now) ==
    IF identifier \in Tracked(reqs)
    THEN Tracked(Swept(reqs, now)) \ Tracked(_cleanup_old_requests(reqs, identifier, now))
    ELSE {}

----------------------------------------------------------------------------
(* Sequential use of the limiter: each call runs as a whole (the calls are *)
(* serialised by self.lock).                                               *)

NoReference ==
    /\ shadow = <<>>
    /\ shadowResult = FALSE
    /\ overflowed = FALSE

ThreadsIdle ==
    /\ pc = [t \in Threads |-> "idle"]
    /\ tid = [t \in Threads |-> 0]
    /\ tnow = [t \in Threads |-> 0]
    /\ tcount = [t \in Threads |-> 0]
    /\ tret = [t \in Threads |-> FALSE]
    /\ lock = NoThread
    /\ entryCount = [t \in Threads |-> 0]
    /\ entryClock = [t \in Threads |-> 0]
    /\ accSince = [t \in Threads |-> 0]

Init ==
    /\ requests = <<>>
    /\ clock = 0
    /\ op = [name |-> "init"]
    /\ result = FALSE
    /\ trace = <<>>
    /\ accepted = [i \in Identifiers |-> <<>>]
    /\ live = [i \in Identifiers |-> <<>>]
    /\ hist = <<>>
    /\ ThreadsIdle
    /\ NoReference

StillInWindow(stamps, now) == SelectSeq(stamps, LAMBDA t : now - t < window_seconds)

Tick ==
    /\ clock < MaxTime
    /\ clock' = clock + 1
    /\ accepted' = [i \in Identifiers |-> StillInWindow(accepted[i], clock + 1)]
    /\ live' = [i \in Identifiers |-> StillInWindow(live[i], clock + 1)]
    /\ UNCHANGED <<requests, op, result, trace, hist>>
    /\ UNCHANGED thvars
    /\ UNCHANGED refvars

IsAllowedCall(identifier) ==
    /\ LET r == is_allowed(requests, identifier, clock)
           gone == Evicted(requests, identifier, clock)
       IN  /\ r.ret => Len(accepted[identifier]) < MaxAccepted
           /\ op' = [name |-> "is_allowed", id |-> identifier, now |-> clock]
           /\ requests' = r.requests
           /\ result' = r.ret
           /\ trace' = <<>>
           /\ accepted' = [accepted EXCEPT ![identifier] =
                              IF r.ret THEN Append(@, clock) ELSE @]
           /\ live' = [i \in Identifiers |->
                          LET kept == IF i \in gone THEN <<>> ELSE live[i]
                          IN  IF i = identifier /\ r.ret THEN Append(kept, clock)
                                                        ELSE kept]
    /\ UNCHANGED clock
    /\ UNCHANGED thvars

IsAllowed(identifier) ==
    /\ IsAllowedCall(identifier)
    /\ UNCHANGED hist
    /\ UNCHANGED refvars

GetRemaining(identifier) ==
    /\ LET r == get_remaining(requests, identifier, clock)
       IN  /\ op' = [name |-> "get_remaining", id |-> identifier, now |-> clock]
           /\ requests' = r.requests
           /\ result' = r.ret
           /\ trace' = <<>>
    /\ UNCHANGED <<clock, accepted, live, hist>>
    /\ UNCHANGED thvars
    /\ UNCHANGED refvars

Next ==
    \/ Tick
    \/ \E identifier \in Identifiers : IsAllowed(identifier)
    \/ \E identifier \in Identifiers : GetRemaining(identifier)

Spec == Init /\ [][Next]_vars

----------------------------------------------------------------------------
(* One identifier followed from its first call, next to other callers that *)
(* keep the table within max_identifiers.                                  *)

Probe == CHOOSE i \in Identifiers : \A j \in Identifiers : i <= j
Neighbours == (1..max_identifiers) \ {Probe}

ProbeIsAllowed ==
    /\ Len(hist) < MaxCalls
    /\ IsAllowedCall(Probe)
    /\ hist' = Append(hist, [now |-> clock, ok |-> result'])
    /\ UNCHANGED refvars

NextProbe ==
    \/ Tick
    \/ ProbeIsAllowed
    \/ GetRemaining(Probe)
    \/ \E identifier \in Neighbours : IsAllowed(identifier)
    \/ \E identifier \in Neighbours : GetRemaining(identifier)

SpecProbe == Init /\ [][NextProbe]_vars

----------------------------------------------------------------------------
(* Two limiters side by side.  The limiter under study takes every call;   *)
(* the reference limiter takes the same is_allowed calls at the same clock *)
(* values and no get_remaining call.                                       *)

BothIsAllowed(identifier) ==
    /\ IsAllowedCall(identifier)
    /\ LET r == is_allowed(shadow, identifier, clock)
       IN  /\ shadow' = r.requests
           /\ shadowResult' = r.ret
    /\ UNCHANGED <<hist, overflowed>>

NextReadOnly ==
    \/ Tick
    \/ \E identifier \in Identifiers : BothIsAllowed(identifier)
    \/ \E identifier \in Identifiers : GetRemaining(identifier)

SpecReadOnly == Init /\ [][NextReadOnly]_vars

----------------------------------------------------------------------------
(* Two limiters side by side.  Both take the is_allowed calls of the       *)
(* identifier Probe at the same clock values; only the limiter under study *)
(* takes the calls of the other identifiers.                               *)

Others == Identifiers \ {Probe}

Overflows(reqs) == Cardinality(Tracked(reqs)) > max_identifiers

ProbeBothIsAllowed ==
    /\ IsAllowedCall(Probe)
    /\ LET r == is_allowed(shadow, Probe, clock)
       IN  /\ shadow' = r.requests
           /\ shadowResult' = r.ret
    /\ overflowed' = (overflowed \/ Overflows(requests') \/ Overflows(shadow'))
    /\ UNCHANGED hist

OtherIsAllowed(identifier) ==
    /\ IsAllowedCall(identifier)
    /\ overflowed' = (overflowed \/ Overflows(requests'))
    /\ UNCHANGED <<hist, shadow, shadowResult>>

NextAlone ==
    \/ Tick
    \/ ProbeBothIsAllowed
    \/ \E identifier \in Others : OtherIsAllowed(identifier)
    \/ \E identifier \in Others : GetRemaining(identifier)

SpecAlone == Init /\ [][NextAlone]_vars

----------------------------------------------------------------------------
(* Concurrent callers of is_allowed.  Each thread makes one call and runs  *)
(* its body a statement at a time; `with self.lock` is the only thing that *)
(* keeps the bodies apart.  The callers use identifiers that fit the table *)
(* (at most max_identifiers of them), so the eviction pass stays idle.     *)

LockAvailable_never_held(holder) == TRUE

\* with self.lock: blocks until no other thread holds the lock
LockAvailable(holder) == holder = NoThread

RacingIdentifiers == {i \in Identifiers : i <= max_identifiers}

Deciding == {"acquire", "cleanup", "count", "check"}

\* a thread enters is_allowed; the threads are interchangeable and are
\* numbered in the order in which they make their call
Call(t, identifier) ==
    /\ pc[t] = "idle"
    /\ \A u \in Threads : u < t => pc[u] # "idle"
    /\ pc' = [pc EXCEPT ![t] = "acquire"]
    /\ tid' = [tid EXCEPT ![t] = identifier]
    /\ entryCount' = [entryCount EXCEPT ![t] =
                         Len(StillInWindow(TimesOf(requests, identifier), clock))]
    /\ entryClock' = [entryClock EXCEPT ![t] = clock]
    /\ accSince' = [accSince EXCEPT ![t] = 0]
    /\ UNCHANGED <<requests, clock, op, result, trace, accepted, live, hist>>
    /\ UNCHANGED <<tnow, tcount, tret, lock>>
    /\ UNCHANGED refvars

\* with self.lock: now = time.time()
Acquire(t) ==
    /\ pc[t] = "acquire"
    /\ LockAvailable(lock)
    /\ lock' = {t}
    /\ tnow' = [tnow EXCEPT ![t] = clock]
    /\ pc' = [pc EXCEPT ![t] = "cleanup"]
    /\ UNCHANGED <<requests, clock, op, result, trace, accepted, live, hist>>
    /\ UNCHANGED <<tid, tcount, tret, entryCount, entryClock, accSince>>
    /\ UNCHANGED refvars

\* self._cleanup_old_requests(identifier, now)
Cleanup(t) ==
    /\ pc[t] = "cleanup"
    /\ requests' = _cleanup_old_requests(requests, tid[t], tnow[t])
    /\ pc' = [pc EXCEPT ![t] = "count"]
    /\ UNCHANGED <<clock, op, result, trace, accepted, live, hist>>
    /\ UNCHANGED <<tid, tnow, tcount, tret, lock, entryCount, entryClock, accSince>>
    /\ UNCHANGED refvars

\* current_requests = self._get_request_count(identifier, now)
Count(t) ==
    /\ pc[t] = "count"
    /\ requests' = PruneOne(requests, tid[t], tnow[t])
    /\ tcount' = [tcount EXCEPT ![t] = _get_request_count(requests, tid[t], tnow[t])]
    /\ pc' = [pc EXCEPT ![t] = "check"]
    /\ UNCHANGED <<clock, op, result, trace, accepted, live, hist>>
    /\ UNCHANGED <<tid, tnow, tret, lock, entryCount, entryClock, accSince>>
    /\ UNCHANGED refvars

\* the check of current_requests, then either return False or record and
\* return True
Check(t) ==
    /\ pc[t] = "check"
    /\ pc' = [pc EXCEPT ![t] = "release"]
    /\ IF OverQuota(tcount[t])
       THEN /\ tret' = [tret EXCEPT ![t] = FALSE]
            /\ UNCHANGED <<requests, accSince>>
       ELSE /\ tret' = [tret EXCEPT ![t] = TRUE]
            /\ requests' = Record(requests, tid[t], tnow[t])
            /\ accSince' = [u \in Threads |->
                               IF /\ u # t
                                  /\ pc[u] \in Deciding
                                  /\ tid[u] = tid[t]
                                  /\ entryClock[u] - tnow[t] < window_seconds
                               THEN accSince[u] + 1
                               ELSE accSince[u]]
    /\ UNCHANGED <<clock, op, result, trace, accepted, live, hist>>
    /\ UNCHANGED <<tid, tnow, tcount, lock, entryCount, entryClock>>
    /\ UNCHANGED refvars

\* leaving the with block
Release(t) ==
    /\ pc[t] = "release"
    /\ lock' = NoThread
    /\ pc' = [pc EXCEPT ![t] = "done"]
    /\ UNCHANGED <<requests, clock, op, result, trace, accepted, live, hist>>
    /\ UNCHANGED <<tid, tnow, tcount, tret, entryCount, entryClock, accSince>>
    /\ UNCHANGED refvars

NextThreads ==
    \/ Tick
    \/ \E t \in Threads : \E identifier \in RacingIdentifiers : Call(t, identifier)
    \/ \E t \in Threads : Acquire(t)
    \/ \E t \in Threads : Cleanup(t)
    \/ \E t \in Threads : Count(t)
    \/ \E t \in Threads : Check(t)
    \/ \E t \in Threads : Release(t)

SpecThreads == Init /\ [][NextThreads]_vars

----------------------------------------------------------------------------
(* Text.  A text is a sequence of characters, a character a one-character  *)
(* string; the control characters and the backquote go by the names       *)
(* "x00".."x7F".  Texts are ASCII.  Ascii[b + 1] is the character of       *)
(* byte b.                                                                 *)

Ascii ==
  <<  "x00", "x01", "x02", "x03", "x04", "x05", "x06", "x07",
    "x08", "\t", "\n", "x0B", "\f", "\r", "x0E", "x0F",
    "x10", "x11", "x12", "x13", "x14", "x15", "x16", "x17",
    "x18", "x19", "x1A", "x1B", "x1C", "x1D", "x1E", "x1F",
    " ", "!", "\"", "#", "$", "%", "&", "'",
    "(", ")", "*", "+", ",", "-", ".", "/",
    "0", "1", "2", "3", "4", "5", "6", "7",
    "8", "9", ":", ";", "<", "=", ">", "?",
    "@", "A", "B", "C", "D", "E", "F", "G",
    "H", "I", "J", "K", "L", "M", "N", "O",
    "P", "Q", "R", "S", "T", "U", "V", "W",
    "X", "Y", "Z", "[", "\\", "]", "^", "_",
    "x60", "a", "b", "c", "d", "e", "f", "g",
    "h", "i", "j", "k", "l", "m", "n", "o",
    "p", "q", "r", "s", "t", "u", "v", "w",
    "x", "y", "z", "{", "|", "}", "~", "x7F" >>

\* what the UTF-8 decoder of unquote (errors='replace') puts for a byte that
\* is no character
REPLACEMENT == "uFFFD"

Chars == {Ascii[i] : i \in 1..Len(Ascii)} \cup {REPLACEMENT}

CodeOf(ch) == (CHOOSE i \in 1..Len(Ascii) : Ascii[i] = ch) - 1

UpperCase == {"A", "B", "C", "D", "E", "F", "G", "H", "I", "J", "K", "L", "M",
              "N", "O", "P", "Q", "R", "S", "T", "U", "V", "W", "X", "Y", "Z"}

\* str.lower() of one character: 'A'..'Z' move up by 32
LowerOf == [ch \in Chars |-> IF ch \in UpperCase THEN Ascii[CodeOf(ch) + 32 + 1] ELSE ch]

lower(text) == [i \in 1..Len(text) |-> LowerOf[text[i]]]

Digits == {"0", "1", "2", "3", "4", "5", "6", "7", "8", "9"}
HexDigits == Digits \cup {"a", "b", "c", "d", "e", "f", "A", "B", "C", "D", "E", "F"}
\* \w
WordChars == Digits \cup UpperCase \cup {LowerOf[c] : c \in UpperCase} \cup {"_"}
\* \s
SpaceChars == {" ", "\t", "\n", "x0B", "\f", "\r", "x1C", "x1D", "x1E", "x1F"}

HexValue ==
    [ch \in HexDigits |->
        IF ch \in Digits THEN CodeOf(ch) - 48
        ELSE IF ch \in UpperCase THEN CodeOf(ch) - 55 ELSE CodeOf(ch) - 87]

\* urllib.parse.unquote: every %XX with two hex digits becomes the byte XX,
\* anything else stays; the bytes are decoded as UTF-8 with errors='replace'.
\* A byte above 0x7F is no character on its own and becomes the replacement
\* character (multi-byte sequences are not modelled).
ByteChar(b) == IF b < 128 THEN Ascii[b + 1] ELSE REPLACEMENT

IsEscape(text, p) ==
    /\ text[p] = "%"
    /\ p + 2 <= Len(text)
    /\ text[p + 1] \in HexDigits
    /\ text[p + 2] \in HexDigits

RECURSIVE UnquoteFrom(_, _)
UnquoteFrom(text, p) ==
    IF p > Len(text) THEN <<>>
    ELSE IF IsEscape(text, p)
         THEN <<ByteChar(16 * HexValue[text[p + 1]] + HexValue[text[p + 2]])>>
                 \o UnquoteFrom(text, p + 3)
         ELSE <<text[p]>> \o UnquoteFrom(text, p + 1)

unquote(text) == UnquoteFrom(text, 1)

----------------------------------------------------------------------------
(* Regular expressions, as far as the catalogs use them.  A pattern is a   *)
(* sequence of elements: a literal, a repeated character class, \b, $, or  *)
(* a group of alternative literals.                                        *)

Lit(s) == [k |-> "lit", s |-> s, c |-> "", lo |-> 0, unbounded |-> FALSE, alts |-> {}]
Star(c) == [k |-> "rep", s |-> <<>>, c |-> c, lo |-> 0, unbounded |-> TRUE, alts |-> {}]
Plus(c) == [k |-> "rep", s |-> <<>>, c |-> c, lo |-> 1, unbounded |-> TRUE, alts |-> {}]
Times_(c, n) == [k |-> "rep", s |-> <<>>, c |-> c, lo |-> n, unbounded |-> FALSE, alts |-> {}]
WordBoundary == [k |-> "wb", s |-> <<>>, c |-> "", lo |-> 0, unbounded |-> FALSE, alts |-> {}]
EndOfText == [k |-> "end", s |-> <<>>, c |-> "", lo |-> 0, unbounded |-> FALSE, alts |-> {}]
Alt(alts) == [k |-> "alt", s |-> <<>>, c |-> "", lo |-> 0, unbounded |-> FALSE, alts |-> alts]

InClass(ch, c) ==
    CASE c = "space" -> ch \in SpaceChars
      [] c = "word" -> ch \in WordChars
      [] c = "dot" -> ch # "\n"
      [] c = "any" -> TRUE
      [] c = "not_gt" -> ch # ">"
      [] c = "not_semicolon" -> ch # ";"
      [] c = "hex" -> ch \in HexDigits
      [] c = "digit" -> ch \in Digits

IsWordAt(text, p) == p >= 1 /\ p <= Len(text) /\ text[p] \in WordChars

LitAt(text, p, s) ==
    /\ p + Len(s) - 1 <= Len(text)
    /\ \A i \in 1..Len(s) : text[p + i - 1] = s[i]

\* the longest run of characters of class c that starts at p
RECURSIVE RunLength(_, _, _)
RunLength(text, p, c) ==
    IF p <= Len(text) /\ InClass(text[p], c) THEN 1 + RunLength(text, p + 1, c) ELSE 0

\* elements k.. of pattern pat match text from position p on (re.IGNORECASE:
\* text and pattern are both case-folded before this is asked)
RECURSIVE MatchFrom(_, _, _, _)
MatchFrom(pat, k, text, p) ==
    IF k > Len(pat) THEN TRUE
    ELSE LET e == pat[k] IN
         CASE e.k = "lit" ->
                 LitAt(text, p, e.s) /\ MatchFrom(pat, k + 1, text, p + Len(e.s))
           [] e.k = "alt" ->
                 \E s \in e.alts :
                     LitAt(text, p, s) /\ MatchFrom(pat, k + 1, text, p + Len(s))
           [] e.k = "wb" ->
                 /\ IsWordAt(text, p - 1) # IsWordAt(text, p)
                 /\ MatchFrom(pat, k + 1, text, p)
           [] e.k = "end" ->
                 /\ \/ p = Len(text) + 1
                    \/ p = Len(text) /\ text[p] = "\n"
                 /\ MatchFrom(pat, k + 1, text, p)
           [] e.k = "rep" ->
                 LET run == RunLength(text, p, e.c)
                     most == IF e.unbounded THEN run ELSE e.lo
                 IN  \E n \in e.lo..most :
                         n <= run /\ MatchFrom(pat, k + 1, text, p + n)

\* re.compile(pattern, re.IGNORECASE): letters of the pattern match in
\* either case
FoldElement(e) ==
    [e EXCEPT !.s = lower(e.s), !.alts = {lower(a) : a \in e.alts}]

Compile(pattern) == [k \in 1..Len(pattern) |-> FoldElement(pattern[k])]

\* pattern.search(text): a match starting anywhere
Search(compiled, text) ==
    LET folded == lower(text)
    IN  \E p \in 1..(Len(folded) + 1) : MatchFrom(compiled, 1, folded, p)

----------------------------------------------------------------------------
(* The catalogs of security_fixed.py.  The source line of the sixteenth    *)
(* SQL pattern closes its string after \' ; the pattern is taken as the    *)
(* line spells it out, \'";\s*(select|...).                                *)

DANGEROUS_PATTERNS ==
  <<
    \* <script\b[^>]*>
    <<Lit(<<"<", "s", "c", "r", "i", "p", "t">>), WordBoundary, Star("not_gt"), Lit(<<">">>)>>,
    \* </script>
    <<Lit(<<"<", "/", "s", "c", "r", "i", "p", "t", ">">>)>>,
    \* <script[^>]*>[\s\S]*?</script>
    <<Lit(<<"<", "s", "c", "r", "i", "p", "t">>), Star("not_gt"), Lit(<<">">>), Star("any"), Lit(<<"<", "/", "s", "c", "r", "i", "p", "t", ">">>)>>,
    \* javascript:
    <<Lit(<<"j", "a", "v", "a", "s", "c", "r", "i", "p", "t", ":">>)>>,
    \* vbscript:
    <<Lit(<<"v", "b", "s", "c", "r", "i", "p", "t", ":">>)>>,
    \* on\w+\s*=
    <<Lit(<<"o", "n">>), Plus("word"), Star("space"), Lit(<<"=">>)>>,
    \* on\w+\s*:
    <<Lit(<<"o", "n">>), Plus("word"), Star("space"), Lit(<<":">>)>>,
    \* <iframe
    <<Lit(<<"<", "i", "f", "r", "a", "m", "e">>)>>,
    \* <object
    <<Lit(<<"<", "o", "b", "j", "e", "c", "t">>)>>,
    \* <embed
    <<Lit(<<"<", "e", "m", "b", "e", "d">>)>>,
    \* <form
    <<Lit(<<"<", "f", "o", "r", "m">>)>>,
    \* <meta\b[^>]*http-equiv
    <<Lit(<<"<", "m", "e", "t", "a">>), WordBoundary, Star("not_gt"), Lit(<<"h", "t", "t", "p", "-", "e", "q", "u", "i", "v">>)>>,
    \* <link\b[^>]*stylesheet
    <<Lit(<<"<", "l", "i", "n", "k">>), WordBoundary, Star("not_gt"), Lit(<<"s", "t", "y", "l", "e", "s", "h", "e", "e", "t">>)>>,
    \* data:text/html
    <<Lit(<<"d", "a", "t", "a", ":", "t", "e", "x", "t", "/", "h", "t", "m", "l">>)>>,
    \* data:text/javascript
    <<Lit(<<"d", "a", "t", "a", ":", "t", "e", "x", "t", "/", "j", "a", "v", "a", "s", "c", "r", "i", "p", "t">>)>>,
    \* data:application/javascript
    <<Lit(<<"d", "a", "t", "a", ":", "a", "p", "p", "l", "i", "c", "a", "t", "i", "o", "n", "/", "j", "a", "v", "a", "s", "c", "r", "i", "p", "t">>)>>,
    \* data:image/svg\+xml
    <<Lit(<<"d", "a", "t", "a", ":", "i", "m", "a", "g", "e", "/", "s", "v", "g", "+", "x", "m", "l">>)>>,
    \* data:[^;]*;base64
    <<Lit(<<"d", "a", "t", "a", ":">>), Star("not_semicolon"), Lit(<<";", "b", "a", "s", "e", "6", "4">>)>>,
    \* expression\s*\(
    <<Lit(<<"e", "x", "p", "r", "e", "s", "s", "i", "o", "n">>), Star("space"), Lit(<<"(">>)>>,
    \* eval\s*\(
    <<Lit(<<"e", "v", "a", "l">>), Star("space"), Lit(<<"(">>)>>,
    \* setTimeout\s*\(
    <<Lit(<<"s", "e", "t", "T", "i", "m", "e", "o", "u", "t">>), Star("space"), Lit(<<"(">>)>>,
    \* setInterval\s*\(
    <<Lit(<<"s", "e", "t", "I", "n", "t", "e", "r", "v", "a", "l">>), Star("space"), Lit(<<"(">>)>>,
    \* Function\s*\(
    <<Lit(<<"F", "u", "n", "c", "t", "i", "o", "n">>), Star("space"), Lit(<<"(">>)>>,
    \* @import
    <<Lit(<<"@", "i", "m", "p", "o", "r", "t">>)>>,
    \* url\s*\(
    <<Lit(<<"u", "r", "l">>), Star("space"), Lit(<<"(">>)>>,
    \* behavior\s*:
    <<Lit(<<"b", "e", "h", "a", "v", "i", "o", "r">>), Star("space"), Lit(<<":">>)>>,
    \* -moz-binding
    <<Lit(<<"-", "m", "o", "z", "-", "b", "i", "n", "d", "i", "n", "g">>)>>,
    \* &lt;script
    <<Lit(<<"&", "l", "t", ";", "s", "c", "r", "i", "p", "t">>)>>,
    \* &lt;/script&gt;
    <<Lit(<<"&", "l", "t", ";", "/", "s", "c", "r", "i", "p", "t", "&", "g", "t", ";">>)>>,
    \* &#x[0-9a-fA-F]+;
    <<Lit(<<"&", "#", "x">>), Plus("hex"), Lit(<<";">>)>>,
    \* &#[0-9]+;
    <<Lit(<<"&", "#">>), Plus("digit"), Lit(<<";">>)>>,
    \* %3C%73%63%72%69%70%74
    <<Lit(<<"%", "3", "C", "%", "7", "3", "%", "6", "3", "%", "7", "2", "%", "6", "9", "%", "7", "0", "%", "7", "4">>)>>,
    \* %3E
    <<Lit(<<"%", "3", "E">>)>>,
    \* onerror\s*=
    <<Lit(<<"o", "n", "e", "r", "r", "o", "r">>), Star("space"), Lit(<<"=">>)>>,
    \* onload\s*=
    <<Lit(<<"o", "n", "l", "o", "a", "d">>), Star("space"), Lit(<<"=">>)>>,
    \* alert\s*\(
    <<Lit(<<"a", "l", "e", "r", "t">>), Star("space"), Lit(<<"(">>)>>
  >>

SQL_PATTERNS ==
  <<
    \* \bunion\s+select\b
    <<WordBoundary, Lit(<<"u", "n", "i", "o", "n">>), Plus("space"), Lit(<<"s", "e", "l", "e", "c", "t">>), WordBoundary>>,
    \* \bselect\s+.*\bfrom\b
    <<WordBoundary, Lit(<<"s", "e", "l", "e", "c", "t">>), Plus("space"), Star("dot"), WordBoundary, Lit(<<"f", "r", "o", "m">>), WordBoundary>>,
    \* \binsert\s+into\b
    <<WordBoundary, Lit(<<"i", "n", "s", "e", "r", "t">>), Plus("space"), Lit(<<"i", "n", "t", "o">>), WordBoundary>>,
    \* \bupdate\s+.*\bset\b
    <<WordBoundary, Lit(<<"u", "p", "d", "a", "t", "e">>), Plus("space"), Star("dot"), WordBoundary, Lit(<<"s", "e", "t">>), WordBoundary>>,
    \* \bdelete\s+from\b
    <<WordBoundary, Lit(<<"d", "e", "l", "e", "t", "e">>), Plus("space"), Lit(<<"f", "r", "o", "m">>), WordBoundary>>,
    \* \bdrop\s+table\b
    <<WordBoundary, Lit(<<"d", "r", "o", "p">>), Plus("space"), Lit(<<"t", "a", "b", "l", "e">>), WordBoundary>>,
    \* \balter\s+table\b
    <<WordBoundary, Lit(<<"a", "l", "t", "e", "r">>), Plus("space"), Lit(<<"t", "a", "b", "l", "e">>), WordBoundary>>,
    \* \bcreate\s+table\b
    <<WordBoundary, Lit(<<"c", "r", "e", "a", "t", "e">>), Plus("space"), Lit(<<"t", "a", "b", "l", "e">>), WordBoundary>>,
    \* \btruncate\s+table\b
    <<WordBoundary, Lit(<<"t", "r", "u", "n", "c", "a", "t", "e">>), Plus("space"), Lit(<<"t", "a", "b", "l", "e">>), WordBoundary>>,
    \* \bexec\s*\(
    <<WordBoundary, Lit(<<"e", "x", "e", "c">>), Star("space"), Lit(<<"(">>)>>,
    \* \bexecute\s*\(
    <<WordBoundary, Lit(<<"e", "x", "e", "c", "u", "t", "e">>), Star("space"), Lit(<<"(">>)>>,
    \* ;\s*(select|insert|update|delete|drop|alter|create|truncate|exec|execute)
    <<Lit(<<";">>), Star("space"), Alt({<<"s", "e", "l", "e", "c", "t">>, <<"i", "n", "s", "e", "r", "t">>, <<"u", "p", "d", "a", "t", "e">>, <<"d", "e", "l", "e", "t", "e">>, <<"d", "r", "o", "p">>, <<"a", "l", "t", "e", "r">>, <<"c", "r", "e", "a", "t", "e">>, <<"t", "r", "u", "n", "c", "a", "t", "e">>, <<"e", "x", "e", "c">>, <<"e", "x", "e", "c", "u", "t", "e">>})>>,
    \* \bor\s+1\s*=\s*1\b
    <<WordBoundary, Lit(<<"o", "r">>), Plus("space"), Lit(<<"1">>), Star("space"), Lit(<<"=">>), Star("space"), Lit(<<"1">>), WordBoundary>>,
    \* \band\s+1\s*=\s*1\b
    <<WordBoundary, Lit(<<"a", "n", "d">>), Plus("space"), Lit(<<"1">>), Star("space"), Lit(<<"=">>), Star("space"), Lit(<<"1">>), WordBoundary>>,
    \* \bor\s+.*\s*=\s*.*\b
    <<WordBoundary, Lit(<<"o", "r">>), Plus("space"), Star("dot"), Star("space"), Lit(<<"=">>), Star("space"), Star("dot"), WordBoundary>>,
    \* \'\";\s*(select|insert|update|delete|drop|alter)
    <<Lit(<<"'", "\"", ";">>), Star("space"), Alt({<<"s", "e", "l", "e", "c", "t">>, <<"i", "n", "s", "e", "r", "t">>, <<"u", "p", "d", "a", "t", "e">>, <<"d", "e", "l", "e", "t", "e">>, <<"d", "r", "o", "p">>, <<"a", "l", "t", "e", "r">>})>>,
    \* \bwaitfor\s+delay\b
    <<WordBoundary, Lit(<<"w", "a", "i", "t", "f", "o", "r">>), Plus("space"), Lit(<<"d", "e", "l", "a", "y">>), WordBoundary>>,
    \* \bbenchmark\s*\(
    <<WordBoundary, Lit(<<"b", "e", "n", "c", "h", "m", "a", "r", "k">>), Star("space"), Lit(<<"(">>)>>,
    \* \bsleep\s*\(
    <<WordBoundary, Lit(<<"s", "l", "e", "e", "p">>), Star("space"), Lit(<<"(">>)>>,
    \* \bpg_sleep\s*\(
    <<WordBoundary, Lit(<<"p", "g", "_", "s", "l", "e", "e", "p">>), Star("space"), Lit(<<"(">>)>>,
    \* --\s*$
    <<Lit(<<"-", "-">>), Star("space"), EndOfText>>,
    \* /\*.*\*/
    <<Lit(<<"/", "*">>), Star("dot"), Lit(<<"*", "/">>)>>,
    \* \bxp_cmdshell\b
    <<WordBoundary, Lit(<<"x", "p", "_", "c", "m", "d", "s", "h", "e", "l", "l">>), WordBoundary>>,
    \* \bsp_executesql\b
    <<WordBoundary, Lit(<<"s", "p", "_", "e", "x", "e", "c", "u", "t", "e", "s", "q", "l">>), WordBoundary>>,
    \* \b0x[0-9a-fA-F]+\b
    <<WordBoundary, Lit(<<"0", "x">>), Plus("hex"), WordBoundary>>,
    \* \\u[0-9a-fA-F]{4}
    <<Lit(<<"\\", "u">>), Times_("hex", 4)>>,
    \* \\x[0-9a-fA-F]{2}
    <<Lit(<<"\\", "x">>), Times_("hex", 2)>>,
    \* \bif\s*\(.*,\s*sleep\s*\(
    <<WordBoundary, Lit(<<"i", "f">>), Star("space"), Lit(<<"(">>), Star("dot"), Lit(<<",">>), Star("space"), Lit(<<"s", "l", "e", "e", "p">>), Star("space"), Lit(<<"(">>)>>,
    \* \bcase\s+when\s+.*\s+then\s+sleep\s*\(
    <<WordBoundary, Lit(<<"c", "a", "s", "e">>), Plus("space"), Lit(<<"w", "h", "e", "n">>), Plus("space"), Star("dot"), Plus("space"), Lit(<<"t", "h", "e", "n">>), Plus("space"), Lit(<<"s", "l", "e", "e", "p">>), Star("space"), Lit(<<"(">>)>>
  >>

COMPILED_DANGEROUS_PATTERNS ==
    [i \in 1..Len(DANGEROUS_PATTERNS) |-> Compile(DANGEROUS_PATTERNS[i])]

COMPILED_SQL_PATTERNS_without_union_select ==
    [i \in 1..(Len(SQL_PATTERNS) - 1) |-> Compile(SQL_PATTERNS[i + 1])]

COMPILED_SQL_PATTERNS ==
    [i \in 1..Len(SQL_PATTERNS) |-> Compile(SQL_PATTERNS[i])]

----------------------------------------------------------------------------
(* sanitize_input and validate_jwt_token of security_fixed.py.  A call is  *)
(* described by what it does, in order: the security events it logs, then  *)
(* the violation it raises or the value it returns.                        *)

LogEvent(event_type, pattern, decoded) ==
    [act |-> "log", what |-> event_type, pattern |-> pattern, decoded |-> decoded]
Raise(violation_type) == [act |-> "raise", what |-> violation_type]
Return(value) == [act |-> "return", value |-> value]

\* for pattern in catalog: if pattern.search(check_text): the first pattern
\* that matches, 0 if none does
RECURSIVE FirstMatch(_, _, _)
FirstMatch(catalog, check_text, i) ==
    IF i > Len(catalog) THEN 0
    ELSE IF Search(catalog[i], check_text) THEN i
    ELSE FirstMatch(catalog, check_text, i + 1)

LengthExceeded_at_twice_the_limit(text, max_length) == Len(text) > 2 * max_length

\* if len(text) > max_length
LengthExceeded(text, max_length) == Len(text) > max_length

\* The loop over texts_to_check from its v-th entry on.
RECURSIVE CheckTexts(_, _, _, _)
CheckTexts(text, text_lower, texts_to_check, v) ==
    IF v > Len(texts_to_check) THEN <<Return(text)>>
    ELSE LET check_text == texts_to_check[v]
             xss == FirstMatch(COMPILED_DANGEROUS_PATTERNS, check_text, 1)
             sql == FirstMatch(COMPILED_SQL_PATTERNS, check_text, 1)
         IN  IF xss # 0
             THEN <<LogEvent("XSS_ATTEMPT", xss, check_text # text_lower),
                    Raise("XSS_VIOLATION")>>
             ELSE IF sql # 0
             THEN <<LogEvent("SQL_INJECTION_ATTEMPT", sql, check_text # text_lower),
                    Raise("SQL_INJECTION_VIOLATION")>>
             ELSE CheckTexts(text, text_lower, texts_to_check, v + 1)

texts_to_check_raw_only(text_lower, decoded_text) == <<text_lower>>

texts_to_check_decoded_first(text_lower, decoded_text) == <<decoded_text, text_lower>>

\* texts_to_check = [text_lower, decoded_text]
texts_to_check(text_lower, decoded_text) == <<text_lower, decoded_text>>

sanitize_input_returning_checked_text(text, max_length) ==
    IF text = <<>> THEN <<Return(text)>>
    ELSE IF LengthExceeded(text, max_length)
    THEN <<Raise("LENGTH_VIOLATION")>>
    ELSE LET text_lower == lower(text)
             decoded_text == unquote(text_lower)
         IN  CheckTexts(text_lower, text_lower,
                        texts_to_check(text_lower, decoded_text), 1)

sanitize_input_checking_length_first(text, max_length) ==
    IF LengthExceeded(text, max_length)
    THEN <<Raise("LENGTH_VIOLATION")>>
    ELSE IF text = <<>> THEN <<Return(text)>>
    ELSE LET text_lower == lower(text)
             decoded_text == unquote(text_lower)
         IN  CheckTexts(text, text_lower,
                        texts_to_check(text_lower, decoded_text), 1)

\* unquote of a str raises nothing, so the except branch never runs
sanitize_input(text, max_length) ==
    IF text = <<>> THEN <<Return(text)>>
    ELSE IF LengthExceeded(text, max_length)
    THEN <<Raise("LENGTH_VIOLATION")>>
    ELSE LET text_lower == lower(text)
             decoded_text == unquote(text_lower)
         IN  CheckTexts(text, text_lower,
                        texts_to_check(text_lower, decoded_text), 1)

MIN_TOKEN_LENGTH == 10
MAX_TOKEN_LENGTH == 2048
TOKEN_PARTS == 3

\* len(token.split('.'))
Parts(token) == Cardinality({i \in 1..Len(token) : token[i] = "."}) + 1

validate_jwt_token(token) ==
    IF token = <<>> THEN <<Raise("JWT_VALIDATION")>>
    ELSE IF Len(token) < MIN_TOKEN_LENGTH THEN <<Raise("JWT_VALIDATION")>>
    ELSE IF Len(token) > MAX_TOKEN_LENGTH THEN <<Raise("JWT_VALIDATION")>>
    ELSE IF Parts(token) # TOKEN_PARTS THEN <<Raise("JWT_VALIDATION")>>
    ELSE <<Return("payload")>>

\* what the caller gets: the value returned, or the violation
Outcome(tr) ==
    LET last == tr[Len(tr)]
    IN  IF last.act = "return" THEN [raised |-> FALSE, value |-> last.value]
        ELSE [raised |-> TRUE, kind |-> last.what]

MIN_API_KEY_LENGTH == 8
MAX_API_KEY_LENGTH == 128

\* dangerous_chars of validate_api_key
dangerous_chars == {"<", ">", "&", "'", "\"", ";", "\n", "\r", "\t", "x00"}

\* every rejection logs an API_KEY_VALIDATION event, then returns False
validate_api_key(api_key) ==
    IF api_key = <<>>
    THEN <<LogEvent("API_KEY_VALIDATION", 0, FALSE), Return(FALSE)>>
    ELSE IF Len(api_key) < MIN_API_KEY_LENGTH \/ Len(api_key) > MAX_API_KEY_LENGTH
    THEN <<LogEvent("API_KEY_VALIDATION", 0, FALSE), Return(FALSE)>>
    ELSE IF \E i \in 1..Len(api_key) : api_key[i] \in dangerous_chars
    THEN <<LogEvent("API_KEY_VALIDATION", 0, FALSE), Return(FALSE)>>
    ELSE <<Return(TRUE)>>

\* SecurityManager.validate_token: try: validate_jwt_token(token); return True
\* except SecurityViolation: return False
validate_token(token) ==
    LET inner == validate_jwt_token(token)
    IN  IF Outcome(inner).raised THEN <<Return(FALSE)>> ELSE <<Return(TRUE)>>

----------------------------------------------------------------------------
(* security_simple.py, the second variant of the gate.  It raises          *)
(* ValueError, has no max_length and logs nothing.                         *)

simple_XSS_PATTERNS ==
  <<
    \* <script[^>]*>
    <<Lit(<<"<", "s", "c", "r", "i", "p", "t">>), Star("not_gt"), Lit(<<">">>)>>,
    \* </script>
    <<Lit(<<"<", "/", "s", "c", "r", "i", "p", "t", ">">>)>>,
    \* javascript:
    <<Lit(<<"j", "a", "v", "a", "s", "c", "r", "i", "p", "t", ":">>)>>,
    \* on\w+\s*=
    <<Lit(<<"o", "n">>), Plus("word"), Star("space"), Lit(<<"=">>)>>,
    \* <iframe
    <<Lit(<<"<", "i", "f", "r", "a", "m", "e">>)>>,
    \* <object
    <<Lit(<<"<", "o", "b", "j", "e", "c", "t">>)>>,
    \* <embed
    <<Lit(<<"<", "e", "m", "b", "e", "d">>)>>,
    \* onerror\s*=
    <<Lit(<<"o", "n", "e", "r", "r", "o", "r">>), Star("space"), Lit(<<"=">>)>>,
    \* onload\s*=
    <<Lit(<<"o", "n", "l", "o", "a", "d">>), Star("space"), Lit(<<"=">>)>>,
    \* alert\s*\(
    <<Lit(<<"a", "l", "e", "r", "t">>), Star("space"), Lit(<<"(">>)>>,
    \* eval\s*\(
    <<Lit(<<"e", "v", "a", "l">>), Star("space"), Lit(<<"(">>)>>,
    \* expression\s*\(
    <<Lit(<<"e", "x", "p", "r", "e", "s", "s", "i", "o", "n">>), Star("space"), Lit(<<"(">>)>>
  >>

simple_SQL_PATTERNS ==
  <<
    \* \bunion\s+select\b
    <<WordBoundary, Lit(<<"u", "n", "i", "o", "n">>), Plus("space"), Lit(<<"s", "e", "l", "e", "c", "t">>), WordBoundary>>,
    \* \bselect\s+.*\bfrom\b
    <<WordBoundary, Lit(<<"s", "e", "l", "e", "c", "t">>), Plus("space"), Star("dot"), WordBoundary, Lit(<<"f", "r", "o", "m">>), WordBoundary>>,
    \* \binsert\s+into\b
    <<WordBoundary, Lit(<<"i", "n", "s", "e", "r", "t">>), Plus("space"), Lit(<<"i", "n", "t", "o">>), WordBoundary>>,
    \* \bupdate\s+.*\bset\b
    <<WordBoundary, Lit(<<"u", "p", "d", "a", "t", "e">>), Plus("space"), Star("dot"), WordBoundary, Lit(<<"s", "e", "t">>), WordBoundary>>,
    \* \bdelete\s+from\b
    <<WordBoundary, Lit(<<"d", "e", "l", "e", "t", "e">>), Plus("space"), Lit(<<"f", "r", "o", "m">>), WordBoundary>>,
    \* \bdrop\s+table\b
    <<WordBoundary, Lit(<<"d", "r", "o", "p">>), Plus("space"), Lit(<<"t", "a", "b", "l", "e">>), WordBoundary>>,
    \* \balter\s+table\b
    <<WordBoundary, Lit(<<"a", "l", "t", "e", "r">>), Plus("space"), Lit(<<"t", "a", "b", "l", "e">>), WordBoundary>>,
    \* ;\s*drop\s+table
    <<Lit(<<";">>), Star("space"), Lit(<<"d", "r", "o", "p">>), Plus("space"), Lit(<<"t", "a", "b", "l", "e">>)>>,
    \* ;\s*delete\s+from
    <<Lit(<<";">>), Star("space"), Lit(<<"d", "e", "l", "e", "t", "e">>), Plus("space"), Lit(<<"f", "r", "o", "m">>)>>,
    \* '\s*or\s*'1'\s*=\s*'1
    <<Lit(<<"'">>), Star("space"), Lit(<<"o", "r">>), Star("space"), Lit(<<"'", "1", "'">>), Star("space"), Lit(<<"=">>), Star("space"), Lit(<<"'", "1">>)>>,
    \* '\s*or\s*1\s*=\s*1
    <<Lit(<<"'">>), Star("space"), Lit(<<"o", "r">>), Star("space"), Lit(<<"1">>), Star("space"), Lit(<<"=">>), Star("space"), Lit(<<"1">>)>>,
    \* --\s*$
    <<Lit(<<"-", "-">>), Star("space"), EndOfText>>,
    \* /\*.*\*/
    <<Lit(<<"/", "*">>), Star("dot"), Lit(<<"*", "/">>)>>
  >>

simple_COMPILED_XSS_PATTERNS ==
    [k \in 1..Len(simple_XSS_PATTERNS) |-> Compile(simple_XSS_PATTERNS[k])]
simple_COMPILED_SQL_PATTERNS ==
    [k \in 1..Len(simple_SQL_PATTERNS) |-> Compile(simple_SQL_PATTERNS[k])]

\* the checks of the raw text: the error they raise, <<>> if none
simple_checks(text) ==
    IF FirstMatch(simple_COMPILED_XSS_PATTERNS, text, 1) # 0
    THEN <<Raise("ValueError")>>
    ELSE IF FirstMatch(simple_COMPILED_SQL_PATTERNS, text, 1) # 0
    THEN <<Raise("ValueError")>>
    ELSE <<>>

\* one call of unquote
Unquote == [act |-> "unquote"]

Unquotes(tr) == SelectSeq(tr, LAMBDA e : e.act = "unquote")

simple_decoded_check_returning_decoded(text, inner) ==
    IF Outcome(inner).raised THEN Unquotes(inner) \o <<Return(unquote(text))>>
    ELSE inner

\* try: ... return sanitize_input(decoded)  except Exception: pass
\* the error of the recursive call is raised inside the try block, so the
\* except clause catches it and the function goes on to `return text`
simple_decoded_check(text, inner) ==
    IF Outcome(inner).raised THEN Unquotes(inner) \o <<Return(text)>> ELSE inner

\* every level that passes the checks of its text calls unquote once and,
\* if that changed the text, calls sanitize_input on the decoded text
RECURSIVE simple_sanitize_input(_)
simple_sanitize_input(text) ==
    IF text = <<>> THEN <<Return(text)>>
    ELSE IF simple_checks(text) # <<>> THEN simple_checks(text)
    ELSE LET decoded == unquote(text)
         IN  IF decoded # text
             THEN <<Unquote>> \o
                  simple_decoded_check(text, simple_sanitize_input(decoded))
             ELSE <<Unquote, Return(text)>>

simple_dangerous_chars == {"<", ">", "&", "'", "\"", ";", "\n", "\r", "\t"}

simple_validate_api_key(api_key) ==
    IF api_key = <<>> THEN <<Return(FALSE)>>
    ELSE IF Len(api_key) < MIN_API_KEY_LENGTH THEN <<Return(FALSE)>>
    ELSE IF Len(api_key) > MAX_API_KEY_LENGTH THEN <<Return(FALSE)>>
    ELSE IF \E i \in 1..Len(api_key) : api_key[i] \in simple_dangerous_chars
    THEN <<Return(FALSE)>>
    ELSE <<Return(TRUE)>>

simple_validate_jwt_token(token) ==
    IF token = <<>> THEN <<Raise("ValueError")>>
    ELSE IF Len(token) < MIN_TOKEN_LENGTH THEN <<Raise("ValueError")>>
    ELSE IF Parts(token) # TOKEN_PARTS THEN <<Raise("ValueError")>>
    ELSE <<Return("payload")>>

\* try: validate_jwt_token(token); return True  except Exception: return False
simple_validate_token(token) ==
    LET inner == simple_validate_jwt_token(token)
    IN  IF Outcome(inner).raised THEN <<Return(FALSE)>> ELSE <<Return(TRUE)>>

----------------------------------------------------------------------------
(* The gate applied to one input.  Texts are made of at most MaxFragments  *)
(* of the fragments below; tokens of a few segments.                       *)

MaxFragments == 2
ShortField == 10
MAX_FIELD_LENGTH == 1000

Fragments ==
  <<
    \* <script>
    <<"<", "s", "c", "r", "i", "p", "t", ">">>,
    \* <ScRiPt>
    <<"<", "S", "c", "R", "i", "P", "t", ">">>,
    \* %3Cscript%3E
    <<"%", "3", "C", "s", "c", "r", "i", "p", "t", "%", "3", "E">>,
    \* %3Cscript>
    <<"%", "3", "C", "s", "c", "r", "i", "p", "t", ">">>,
    \* union select
    <<"u", "n", "i", "o", "n", " ", "s", "e", "l", "e", "c", "t">>,
    \* UNION \tSELECT
    <<"U", "N", "I", "O", "N", " ", "\t", "S", "E", "L", "E", "C", "T">>,
    \* re
    <<"r", "e">>,
    \*  
    <<" ">>,
    \* %20
    <<"%", "2", "0">>,
    \* %253Cscript>
    <<"%", "2", "5", "3", "C", "s", "c", "r", "i", "p", "t", ">">>,
    \* %55nion select
    <<"%", "5", "5", "n", "i", "o", "n", " ", "s", "e", "l", "e", "c", "t">>,
    \* %zz
    <<"%", "z", "z">>,
    \* 1' OR '1'='1
    <<"1", "'", " ", "O", "R", " ", "'", "1", "'", "=", "'", "1">>,
    \* %25252520
    <<"%", "2", "5", "2", "5", "2", "5", "2", "0">>
  >>

RECURSIVE Concatenations(_)
Concatenations(n) ==
    IF n = 0 THEN {<<>>}
    ELSE LET shorter == Concatenations(n - 1)
         IN  shorter \cup {s \o Fragments[i] : s \in shorter, i \in 1..Len(Fragments)}

Texts == Concatenations(MaxFragments)

\* max_length is an int argument: the default, a short field, and the
\* values at and below zero
MaxLengths == {-1, 0, ShortField, MAX_FIELD_LENGTH}

Repeat(ch, n) == [i \in 1..n |-> ch]

Tokens ==
    {<<>>,
     Repeat("a", MIN_TOKEN_LENGTH - 1),
     <<"a", ".", "b", ".", "c">>,
     Repeat("a", MIN_TOKEN_LENGTH),
     Repeat("a", 4) \o <<".">> \o Repeat("b", 5),
     Repeat("a", 4) \o <<".">> \o Repeat("b", 4) \o <<".">> \o Repeat("c", 4),
     Repeat("a", 3) \o <<".", ".", ".">> \o Repeat("c", 4),
     Repeat("a", MAX_TOKEN_LENGTH - 4) \o <<".", "b", ".", "c">>,
     Repeat("a", MAX_TOKEN_LENGTH - 3) \o <<".", "b", ".", "c">>}

KeyChars == dangerous_chars \cup {"a", "Z", "7", "-", " ", "%"}

ApiKeys ==
    {Repeat("k", n) : n \in {0, MIN_API_KEY_LENGTH - 1, MIN_API_KEY_LENGTH,
                             MAX_API_KEY_LENGTH, MAX_API_KEY_LENGTH + 1}}
    \cup {Repeat("k", MIN_API_KEY_LENGTH - 2) \o <<ch>> : ch \in KeyChars}
    \cup {Repeat("k", MIN_API_KEY_LENGTH - 1) \o <<ch>> : ch \in KeyChars}
    \cup {<<ch>> \o Repeat("k", MAX_API_KEY_LENGTH - 1) : ch \in KeyChars}
    \cup {<<ch>> \o Repeat("k", MAX_API_KEY_LENGTH) : ch \in KeyChars}

GateCalls ==
    {[name |-> "sanitize_input", text |-> t, max_length |-> m] : t \in Texts, m \in MaxLengths}
    \cup {[name |-> "validate_jwt_token", token |-> t] : t \in Tokens}
    \cup {[name |-> "validate_token", token |-> t] : t \in Tokens}
    \cup {[name |-> "validate_api_key", api_key |-> k] : k \in ApiKeys}
    \cup {[name |-> "simple_sanitize_input", text |-> t] : t \in Texts}
    \cup {[name |-> "simple_validate_token", token |-> t] : t \in Tokens}
    \cup {[name |-> "simple_validate_api_key", api_key |-> k] : k \in ApiKeys}

InitGate ==
    /\ op \in GateCalls
    /\ result = [pending |-> TRUE]
    /\ trace = <<>>
    /\ requests = <<>>
    /\ clock = 0
    /\ accepted = [i \in Identifiers |-> <<>>]
    /\ live = [i \in Identifiers |-> <<>>]
    /\ hist = <<>>
    /\ ThreadsIdle
    /\ NoReference

Pending == result = [pending |-> TRUE]

SanitizeInput ==
    /\ Pending
    /\ op.name = "sanitize_input"
    /\ trace' = sanitize_input(op.text, op.max_length)
    /\ result' = Outcome(trace')
    /\ UNCHANGED <<op, requests, clock, accepted, live, hist>>
    /\ UNCHANGED thvars
    /\ UNCHANGED refvars

ValidateJwtToken ==
    /\ Pending
    /\ op.name = "validate_jwt_token"
    /\ trace' = validate_jwt_token(op.token)
    /\ result' = Outcome(trace')
    /\ UNCHANGED <<op, requests, clock, accepted, live, hist>>
    /\ UNCHANGED thvars
    /\ UNCHANGED refvars

\* the caller passes the text it got back through sanitize_input once more
SanitizeInputAgain ==
    /\ ~Pending
    /\ op.name = "sanitize_input"
    /\ hist = <<>>
    /\ ~result.raised
    /\ hist' = <<result>>
    /\ op' = [name |-> "sanitize_input", text |-> result.value,
              max_length |-> op.max_length]
    /\ trace' = sanitize_input(result.value, op.max_length)
    /\ result' = Outcome(trace')
    /\ UNCHANGED <<requests, clock, accepted, live>>
    /\ UNCHANGED thvars
    /\ UNCHANGED refvars

ValidateToken ==
    /\ Pending
    /\ op.name = "validate_token"
    /\ trace' = validate_token(op.token)
    /\ result' = Outcome(trace')
    /\ UNCHANGED <<op, requests, clock, accepted, live, hist>>
    /\ UNCHANGED thvars
    /\ UNCHANGED refvars

ValidateApiKey ==
    /\ Pending
    /\ op.name = "validate_api_key"
    /\ trace' = validate_api_key(op.api_key)
    /\ result' = Outcome(trace')
    /\ UNCHANGED <<op, requests, clock, accepted, live, hist>>
    /\ UNCHANGED thvars
    /\ UNCHANGED refvars

SimpleSanitizeInput ==
    /\ Pending
    /\ op.name = "simple_sanitize_input"
    /\ trace' = simple_sanitize_input(op.text)
    /\ result' = Outcome(trace')
    /\ UNCHANGED <<op, requests, clock, accepted, live, hist>>
    /\ UNCHANGED thvars
    /\ UNCHANGED refvars

SimpleSanitizeInputAgain ==
    /\ ~Pending
    /\ op.name = "simple_sanitize_input"
    /\ hist = <<>>
    /\ ~result.raised
    /\ hist' = <<result>>
    /\ op' = [name |-> "simple_sanitize_input", text |-> result.value]
    /\ trace' = simple_sanitize_input(result.value)
    /\ result' = Outcome(trace')
    /\ UNCHANGED <<requests, clock, accepted, live>>
    /\ UNCHANGED thvars
    /\ UNCHANGED refvars

SimpleValidateToken ==
    /\ Pending
    /\ op.name = "simple_validate_token"
    /\ trace' = simple_validate_token(op.token)
    /\ result' = Outcome(trace')
    /\ UNCHANGED <<op, requests, clock, accepted, live, hist>>
    /\ UNCHANGED thvars
    /\ UNCHANGED refvars

SimpleValidateApiKey ==
    /\ Pending
    /\ op.name = "simple_validate_api_key"
    /\ trace' = simple_validate_api_key(op.api_key)
    /\ result' = Outcome(trace')
    /\ UNCHANGED <<op, requests, clock, accepted, live, hist>>
    /\ UNCHANGED thvars
    /\ UNCHANGED refvars

NextGate ==
    \/ SanitizeInput
    \/ SanitizeInputAgain
    \/ ValidateJwtToken
    \/ ValidateToken
    \/ ValidateApiKey
    \/ SimpleSanitizeInput
    \/ SimpleSanitizeInputAgain
    \/ SimpleValidateToken
    \/ SimpleValidateApiKey

SpecGate == InitGate /\ [][NextGate]_vars

----------------------------------------------------------------------------
(* Properties of the rate limiter                                          *)

Times == 0..MaxTime

Occurrences(s, t) == Cardinality({k \in 1..Len(s) : s[k] = t})

\* every element of s occurs in t at least as often
SubBag(s, t) == \A x \in Times : Occurrences(s, x) <= Occurrences(t, x)

\* C1 (as stated): for every identifier, at every instant, the number of
\* accepted is_allowed calls whose timestamp lies inside the trailing
\* window is at most max_requests, eviction included.
C1_QuotaNeverExceeded ==
    \A i \in Identifiers : Len(accepted[i]) <= max_requests

\* C1 (amended): counting only the calls accepted since the identifier was
\* last evicted by the max_identifiers pass, the number of accepted calls
\* inside the trailing window is at most max_requests.
C1_QuotaSinceEviction ==
    \A i \in Identifiers : Len(live[i]) <= max_requests

C1_Witness ==
    /\ op.name = "is_allowed"
    /\ result = FALSE
    /\ Len(live[op.id]) = max_requests
    /\ \E i \in Identifiers : Len(accepted[i]) > Len(live[i])

\* C3: the number of identifiers tracked in RateLimiter.requests never
\* exceeds max_identifiers.
C3_TableBounded == Cardinality(Tracked(requests)) <= max_identifiers

\* C4: an identifier starting with no history has its first max_requests
\* calls made within one window accepted, the next call within that window
\* rejected, and a call made more than window_seconds after every accepted
\* call accepted again.
C4_QuotaThenRecovery ==
    /\ \A k \in 1..Len(hist) :
          (k <= max_requests /\ hist[k].now - hist[1].now < window_seconds)
             => hist[k].ok
    /\ (Len(hist) > max_requests
          /\ hist[max_requests + 1].now - hist[1].now < window_seconds)
             => ~hist[max_requests + 1].ok
    /\ \A k \in 1..Len(hist) :
          (\A j \in 1..(k - 1) :
               hist[j].ok => hist[k].now - hist[j].now > window_seconds)
             => hist[k].ok

C4_Witness ==
    /\ Len(hist) = max_requests + 2
    /\ \A k \in 1..max_requests : hist[k].ok
    /\ hist[max_requests].now - hist[1].now < window_seconds
    /\ ~hist[max_requests + 1].ok
    /\ hist[max_requests + 1].now - hist[1].now < window_seconds
    /\ hist[max_requests + 2].ok
    /\ hist[max_requests + 2].now - hist[max_requests].now > window_seconds

\* C5: an is_allowed call that returns false adds no timestamp to any list
\* and creates no entry; one that returns true leaves the caller's list
\* ending in exactly one new timestamp, the call's now, and adds nothing to
\* any other identifier's list.
NothingAdded(old, new, i) ==
    /\ i \in Tracked(new) => i \in Tracked(old)
    /\ SubBag(TimesOf(new, i), TimesOf(old, i))

OneAdded(old, new, i, now) ==
    LET after == TimesOf(new, i)
    IN  /\ i \in Tracked(new)
        /\ after # <<>>
        /\ after[Len(after)] = now
        /\ SubBag(SubSeq(after, 1, Len(after) - 1), TimesOf(old, i))

C5_FrameOfIsAllowed ==
    [][\A i \in Identifiers :
          IsAllowed(i) =>
             /\ \A j \in Identifiers \ {i} : NothingAdded(requests, requests', j)
             /\ IF result' THEN OneAdded(requests, requests', i, clock)
                           ELSE NothingAdded(requests, requests', i)]_vars

C5_Witness ==
    /\ op.name = "is_allowed"
    /\ result = FALSE
    /\ Len(TimesOf(requests, op.id)) = max_requests
    /\ Cardinality(Tracked(requests)) > 1

\* C2: of the calls that race for an identifier's last slot (they entered
\* is_allowed while the identifier had max_requests - 1 requests in its
\* window, and ran at that same clock value) exactly one is admitted: no two
\* of them return true, and one of them is refused only if another call for
\* the identifier was admitted after it entered.
Racers(identifier, n) ==
    {t \in Threads : /\ pc[t] = "done"
                     /\ tid[t] = identifier
                     /\ entryCount[t] = max_requests - 1
                     /\ entryClock[t] = n
                     /\ tnow[t] = n}

----------------------------------------------------------------------------
(* Properties of the sanitizer and of the events of the gate               *)

Sanitized == op.name = "sanitize_input" /\ ~Pending

Contains(text, s) == \E p \in 1..(Len(text) + 1) : LitAt(text, p, s)

MatchesAny(catalog, text) == \E i \in 1..Len(catalog) : Search(catalog[i], text)

Variants(text) == {lower(text), unquote(lower(text))}

NoCatalogMatch(text) ==
    \A v \in Variants(text) :
        /\ ~MatchesAny(COMPILED_DANGEROUS_PATTERNS, v)
        /\ ~MatchesAny(COMPILED_SQL_PATTERNS, v)

RaisedKind(kind) == result = [raised |-> TRUE, kind |-> kind]

\* C6: a text within max_length that no XSS or SQL-injection pattern matches
\* in its lower-cased or its percent-decoded variant is returned exactly as
\* it was passed, and nothing is raised.
C6_CleanTextReturnedUnchanged ==
    (Sanitized /\ Len(op.text) <= op.max_length /\ NoCatalogMatch(op.text))
        => result = [raised |-> FALSE, value |-> op.text]

C6_Witness ==
    /\ Sanitized
    /\ NoCatalogMatch(op.text)
    /\ unquote(lower(op.text)) # lower(op.text)
    /\ lower(op.text) # op.text
    /\ result = [raised |-> FALSE, value |-> op.text]

ScriptTag == <<"<", "s", "c", "r", "i", "p", "t", ">">>

TagRaw(text) == Contains(lower(text), ScriptTag)
TagEncodedOnce(text) == Contains(lower(unquote(text)), ScriptTag)

\* C7 (as stated): every text that contains a literal <script> tag in any
\* letter case, raw or percent-encoded once, raises XSS_VIOLATION (texts
\* over max_length, which raise LENGTH_VIOLATION, left aside).
C7_ScriptTagIsXss ==
    (/\ Sanitized
     /\ Len(op.text) <= op.max_length
     /\ TagRaw(op.text) \/ TagEncodedOnce(op.text))
        => RaisedKind("XSS_VIOLATION")

\* C7 (amended): every text within max_length that contains a literal
\* <script> tag in any letter case, raw or percent-encoded once, raises a
\* violation.  Its kind is XSS_VIOLATION, except that a text whose tag is
\* only there after decoding and whose lower-cased raw form matches an SQL
\* pattern and no XSS pattern raises SQL_INJECTION_VIOLATION.
SqlFirst(text) ==
    /\ ~MatchesAny(COMPILED_DANGEROUS_PATTERNS, lower(text))
    /\ MatchesAny(COMPILED_SQL_PATTERNS, lower(text))

C7_ScriptTagRejected ==
    (/\ Sanitized
     /\ Len(op.text) <= op.max_length
     /\ TagRaw(op.text) \/ TagEncodedOnce(op.text))
        => IF SqlFirst(op.text) THEN RaisedKind("SQL_INJECTION_VIOLATION")
                                ELSE RaisedKind("XSS_VIOLATION")

C7_Witness ==
    /\ Sanitized
    /\ ~TagRaw(op.text)
    /\ TagEncodedOnce(op.text)
    /\ ~MatchesAny(COMPILED_DANGEROUS_PATTERNS, lower(op.text))
    /\ RaisedKind("XSS_VIOLATION")
    /\ trace[1].decoded

UnionSelectAnywhere ==
    <<Lit(<<"u", "n", "i", "o", "n">>), Plus("space"),
      Lit(<<"s", "e", "l", "e", "c", "t">>)>>

UnionSelectWords ==
    <<WordBoundary, Lit(<<"u", "n", "i", "o", "n">>), Plus("space"),
      Lit(<<"s", "e", "l", "e", "c", "t">>), WordBoundary>>

\* C8 (as stated): every text that contains `union select`, in any letter
\* case and with any amount of whitespace between the words, raises
\* SQL_INJECTION_VIOLATION (texts over max_length, which raise
\* LENGTH_VIOLATION, left aside).
C8_UnionSelectIsSql ==
    (/\ Sanitized
     /\ Len(op.text) <= op.max_length
     /\ Search(UnionSelectAnywhere, op.text))
        => RaisedKind("SQL_INJECTION_VIOLATION")

\* C8 (amended): every text within max_length that contains `union select`
\* as whole words (any letter case, any amount of whitespace between them,
\* no letter, digit or underscore right before or after) and whose
\* lower-cased form matches no XSS pattern raises SQL_INJECTION_VIOLATION.
C8_UnionSelectWordsRejected ==
    (/\ Sanitized
     /\ Len(op.text) <= op.max_length
     /\ Search(UnionSelectWords, op.text)
     /\ ~MatchesAny(COMPILED_DANGEROUS_PATTERNS, lower(op.text)))
        => RaisedKind("SQL_INJECTION_VIOLATION")

C8_Witness ==
    /\ Sanitized
    /\ Search(UnionSelectWords, op.text)
    /\ Contains(op.text, <<"\t">>)
    /\ lower(op.text) # op.text
    /\ RaisedKind("SQL_INJECTION_VIOLATION")

\* C9: whenever a call of the gate raises a violation, a security event was
\* logged earlier in the same call.
GateCall == op.name \in {"sanitize_input", "validate_jwt_token"} /\ ~Pending

C9_EventBeforeEveryViolation ==
    GateCall =>
        \A i \in 1..Len(trace) :
            trace[i].act = "raise" => \E j \in 1..(i - 1) : trace[j].act = "log"

Logged(tr) == Cardinality({i \in 1..Len(tr) : tr[i].act = "log"})

\* C10: every rate-limit rejection logs exactly one security event, and so
\* does every violation the sanitizer raises.
C10_OneEventPerRejection ==
    /\ (op.name = "is_allowed" /\ result = FALSE) => Logged(trace) = 1
    /\ (Sanitized /\ result.raised) => Logged(trace) = 1

SimpleSanitized == op.name = "simple_sanitize_input" /\ ~Pending

SimpleMatch(text) ==
    \/ MatchesAny(simple_COMPILED_XSS_PATTERNS, text)
    \/ MatchesAny(simple_COMPILED_SQL_PATTERNS, text)

\* C11: in the recursive-decode variant, when the raw text matches no
\* pattern but its percent-decoded form matches an XSS or SQL pattern, the
\* error raised by the check of the decoded form reaches the caller of the
\* outermost sanitize_input: the call raises, it does not return.
C11_DecodedViolationPropagates ==
    (/\ SimpleSanitized
     /\ ~SimpleMatch(op.text)
     /\ SimpleMatch(unquote(op.text)))
        => result.raised

\* C12: a non-empty text longer than max_length raises LENGTH_VIOLATION
\* whatever it contains, and nothing else happens in the call: no pattern is
\* reported, no XSS or SQL event is logged, no other violation is raised.
C12_OversizedTextIsLengthViolation ==
    (Sanitized /\ op.text # <<>> /\ Len(op.text) > op.max_length)
        => /\ RaisedKind("LENGTH_VIOLATION")
           /\ trace = <<Raise("LENGTH_VIOLATION")>>

C12_Witness ==
    /\ Sanitized
    /\ Len(op.text) > op.max_length
    /\ MatchesAny(COMPILED_DANGEROUS_PATTERNS, lower(op.text))
    /\ MatchesAny(COMPILED_SQL_PATTERNS, lower(op.text))
    /\ RaisedKind("LENGTH_VIOLATION")

KeyCall == op.name \in {"validate_api_key", "simple_validate_api_key"} /\ ~Pending

ForbiddenInKey == {"<", ">", "&", "'", "\"", ";", "\n", "\r", "\t", "x00"}

WellFormedKey(key) ==
    /\ Len(key) >= 8
    /\ Len(key) <= 128
    /\ \A i \in 1..Len(key) : key[i] \notin ForbiddenInKey

\* C13: validate_api_key(key), in both variants of the gate, returns true
\* exactly when the key has 8 to 128 characters and none of them is one of
\* < > & ' " ; newline, carriage return, tab, null; it returns false otherwise.
C13_ApiKeyAcceptedIffWellFormed ==
    KeyCall => result = [raised |-> FALSE, value |-> WellFormedKey(op.api_key)]

TokenCall == op.name \in {"validate_token", "simple_validate_token"} /\ ~Pending

Dots(token) == Cardinality({i \in 1..Len(token) : token[i] = "."})

WellFormedToken(token) ==
    /\ token # <<>>
    /\ Len(token) >= 10
    /\ Len(token) <= 2048
    /\ Dots(token) = 2

\* C14: SecurityManager.validate_token(token), in both variants of the gate,
\* never raises and returns a boolean: true exactly when the token is not
\* empty, has 10 to 2048 characters and exactly two '.' characters.
C14_TokenAcceptedIffWellFormed ==
    TokenCall => result = [raised |-> FALSE, value |-> WellFormedToken(op.token)]

\* C15: the limiter has no error outcome.  Every is_allowed call returns
\* true or false; every get_remaining call returns an integer r with
\* 0 <= r <= max_requests, equal to max_requests minus the number of the
\* identifier's stored timestamps that are still inside the window at the
\* time of the call, floored at 0.
InWindowCount(reqs, identifier, now) ==
    Cardinality({k \in 1..Len(TimesOf(reqs, identifier)) :
                    now - TimesOf(reqs, identifier)[k] < window_seconds})

C15_LimiterReturnsNoError ==
    [][\A i \in Identifiers :
          /\ IsAllowed(i) => result' \in BOOLEAN
          /\ GetRemaining(i) =>
                LET left == max_requests - InWindowCount(requests, i, clock)
                IN  /\ result' \in 0..max_requests
                    /\ result' = IF left > 0 THEN left ELSE 0]_vars

C15_Witness ==
    /\ op.name = "get_remaining"
    /\ op.now >= window_seconds
    /\ result = max_requests - 1
    /\ Len(TimesOf(requests, op.id)) = 1
    /\ Len(accepted[op.id]) = 1
    /\ Cardinality(Tracked(requests)) > max_identifiers

\* C16: every violation the gate raises has a kind of the closed taxonomy
\* LENGTH_VIOLATION, XSS_VIOLATION, SQL_INJECTION_VIOLATION,
\* JWT_FORMAT_VIOLATION, API_KEY_FORMAT_VIOLATION, RATE_LIMIT_EXCEEDED.
Taxonomy ==
    {"LENGTH_VIOLATION", "XSS_VIOLATION", "SQL_INJECTION_VIOLATION",
     "JWT_FORMAT_VIOLATION", "API_KEY_FORMAT_VIOLATION", "RATE_LIMIT_EXCEEDED"}

RaisesSecurityViolation ==
    op.name \in {"sanitize_input", "validate_jwt_token", "validate_api_key"}

C16_ViolationKindInTaxonomy ==
    (RaisesSecurityViolation /\ ~Pending) =>
        \A i \in 1..Len(trace) : trace[i].act = "raise" => trace[i].what \in Taxonomy

\* C17: sanitize_input is idempotent on accepted text, in the single-pass
\* variant and in the recursive-decode variant: when sanitize_input(t)
\* returns, sanitize_input of the returned text returns too, and returns
\* that same text.
SanitizedTwice ==
    /\ op.name \in {"sanitize_input", "simple_sanitize_input"}
    /\ ~Pending
    /\ hist # <<>>

C18_EmptyTextPasses ==
    (/\ op.name \in {"sanitize_input", "simple_sanitize_input"}
     /\ ~Pending
     /\ op.text = <<>>)
        => /\ result = [raised |-> FALSE, value |-> <<>>]
           /\ trace = <<Return(<<>>)>>

C18_Witness ==
    /\ Sanitized
    /\ op.text = <<>>
    /\ op.max_length < 0
    /\ result = [raised |-> FALSE, value |-> <<>>]
    /\ Logged(trace) = 0

\* C19: every is_allowed call sweeps the whole table, whether or not its
\* identifier was tracked: when it returns, every timestamp stored for any
\* identifier lies inside the window that ends at the call's now, and no
\* identifier but possibly the caller is tracked with an empty list.
C19_EveryCallSweepsTheTable ==
    op.name = "is_allowed" =>
        \A k \in 1..Len(requests) :
            /\ \A n \in 1..Len(requests[k].times) :
                   op.now - requests[k].times[n] < window_seconds
            /\ requests[k].times = <<>> => requests[k].id = op.id

\* C20: whenever the eviction pass of a cleanup removes identifiers, exactly
\* max_identifiers identifiers are retained, and the most recent timestamp
\* of every retained identifier is greater than or equal to the most recent
\* timestamp of every evicted one.
LastActivity(reqs, identifier) == SeqMax(TimesOf(reqs, identifier))

C20_EvictionKeepsMostRecent ==
    [][\A i \in Identifiers :
          (IsAllowed(i) /\ Evicted(requests, i, clock) # {}) =>
              LET swept == Swept(requests, clock)
                  kept == _cleanup_old_requests(requests, i, clock)
              IN  /\ Cardinality(Tracked(kept)) = max_identifiers
                  /\ Len(kept) = max_identifiers
                  /\ Tracked(requests') \ {i} \subseteq Tracked(kept)
                  /\ \A r \in Tracked(kept) : \A e \in Evicted(requests, i, clock) :
                         /\ TimesOf(kept, r) = TimesOf(swept, r)
                         /\ LastActivity(kept, r) >= LastActivity(swept, e)]_vars

C20_Witness ==
    /\ op.name = "is_allowed"
    /\ op.now = clock
    /\ Cardinality(Tracked(requests)) = max_identifiers
    /\ \E e \in Identifiers \ Tracked(requests) :
           /\ accepted[e] # <<>>
           /\ \A r \in Tracked(requests) :
                  LastActivity(requests, r) > SeqMax(accepted[e])

\* C21: the window is closed at its lower bound.  A timestamp recorded
\* exactly window_seconds before now still counts toward the quota, so a
\* call by an identifier that has max_requests stored timestamps no older
\* than window_seconds is rejected.
ClosedWindowCount(reqs, identifier, now) ==
    Cardinality({k \in 1..Len(TimesOf(reqs, identifier)) :
                    now - TimesOf(reqs, identifier)[k] <= window_seconds})

C21_BoundaryTimestampCounts ==
    [][\A i \in Identifiers :
          (IsAllowed(i) /\ ClosedWindowCount(requests, i, clock) >= max_requests)
              => result' = FALSE]_vars

\* C22 (as stated): the kind reported is that of the first match in the
\* order raw/XSS, raw/SQL, decoded/XSS, decoded/SQL; whenever one variant
\* matches both catalogs the kind is XSS_VIOLATION; SQL_INJECTION_VIOLATION
\* is reported only if no XSS pattern matches that variant or an earlier one.
Xss(v) == MatchesAny(COMPILED_DANGEROUS_PATTERNS, v)
Sql(v) == MatchesAny(COMPILED_SQL_PATTERNS, v)
Raw(text) == lower(text)
Decoded(text) == unquote(lower(text))

Scanned == Sanitized /\ op.text # <<>> /\ Len(op.text) <= op.max_length

SqlOnlyAfterXssChecks(text) ==
    /\ ~Xss(Raw(text))
    /\ Sql(Raw(text)) \/ (~Xss(Decoded(text)) /\ Sql(Decoded(text)))

XssOnlyBeforeLaterSql(text) ==
    Xss(Raw(text)) \/ (~Sql(Raw(text)) /\ Xss(Decoded(text)))

KindFollowsOrder ==
    /\ RaisedKind("SQL_INJECTION_VIOLATION") => SqlOnlyAfterXssChecks(op.text)
    /\ RaisedKind("XSS_VIOLATION") => XssOnlyBeforeLaterSql(op.text)
    /\ ~result.raised =>
          \A v \in {Raw(op.text), Decoded(op.text)} : ~Xss(v) /\ ~Sql(v)

C22_AnyVariantWithBothIsXss ==
    Scanned =>
        /\ KindFollowsOrder
        /\ (\E v \in {Raw(op.text), Decoded(op.text)} : Xss(v) /\ Sql(v))
               => RaisedKind("XSS_VIOLATION")

\* C22 (amended): the kind reported is that of the first match in the order
\* raw/XSS, raw/SQL, decoded/XSS, decoded/SQL; whenever the first variant
\* that matches anything matches both catalogs the kind is XSS_VIOLATION (a
\* decoded variant that matches both does not outrank an SQL match of the
\* raw variant); SQL_INJECTION_VIOLATION is reported only if no XSS pattern
\* matches that variant or an earlier one.
FirstMatchingVariantHasBoth(text) ==
    \/ Xss(Raw(text)) /\ Sql(Raw(text))
    \/ /\ ~Xss(Raw(text)) /\ ~Sql(Raw(text))
       /\ Xss(Decoded(text)) /\ Sql(Decoded(text))

C22_KindIsFirstMatch ==
    Scanned =>
        /\ KindFollowsOrder
        /\ FirstMatchingVariantHasBoth(op.text) => RaisedKind("XSS_VIOLATION")

C22_Witness ==
    /\ Scanned
    /\ ~Xss(Raw(op.text)) /\ ~Sql(Raw(op.text))
    /\ Xss(Decoded(op.text)) /\ Sql(Decoded(op.text))
    /\ RaisedKind("XSS_VIOLATION")

\* C23: sanitize_input applies at most a fixed number of percent-decode
\* passes, whatever the input: a cap such as 3, which does not grow with the
\* number of times the input is nested-encoded.
DecodePasses == Len(Unquotes(trace))

C23_DecodePassesCapped ==
    SimpleSanitized => DecodePasses <= 3

\* C24: the sanitizer checks the lower-cased text, its percent-decoded form
\* and the form decoded a second time against both catalogs: a text within
\* max_length whose twice-decoded form matches a catalog pattern is
\* rejected, also when neither the raw nor the once-decoded form matches.
DecodedTwice(text) == unquote(unquote(lower(text)))

C24_TwiceDecodedFormChecked ==
    (Scanned /\ (Xss(DecodedTwice(op.text)) \/ Sql(DecodedTwice(op.text))))
        => result.raised

\* C25: whenever sanitize_input returns, in either variant of the gate, the
\* returned string is character for character the argument of the call;
\* a decoded or case-folded variant is never returned in its place.
C25_ReturnsTheArgument ==
    (/\ op.name \in {"sanitize_input", "simple_sanitize_input"}
     /\ ~Pending
     /\ ~result.raised)
        => result.value = op.text

\* C26: a table entry is created only by an accepted is_allowed call of an
\* identifier that was not tracked, and removed only by the cleanup of an
\* is_allowed call: an identifier with a timestamp still inside the window
\* is dropped only when more than max_identifiers identifiers are tracked,
\* and get_remaining neither creates nor removes an entry.
HasInWindow(reqs, identifier, now) == InWindowCount(reqs, identifier, now) > 0

C26_EntriesCreatedAndRemovedByIsAllowed ==
    [][/\ \A i \in Tracked(requests') \ Tracked(requests) :
              IsAllowed(i) /\ result' = TRUE
       /\ \A i \in Tracked(requests) \ Tracked(requests') :
              /\ \E j \in Identifiers : IsAllowed(j)
              /\ HasInWindow(requests, i, clock)
                    => Cardinality(Tracked(requests)) > max_identifiers
       /\ \A i \in Identifiers :
              GetRemaining(i) => Tracked(requests') = Tracked(requests)]_vars

C26_Witness ==
    /\ op.name = "get_remaining"
    /\ op.now = clock
    /\ op.id \in Tracked(requests)
    /\ TimesOf(requests, op.id) = <<>>
    /\ result = max_requests
    /\ accepted[op.id] = <<>>

\* C27: a throttled identifier recovers, and rejected attempts do not
\* prolong the block.  If the k-th call of an identifier was rejected, then
\* its first later call made once the oldest timestamp stored at that
\* rejection has left the window is accepted, however many rejected calls
\* were made in between.
StoredAt(k) ==
    {j \in 1..(k - 1) :
        hist[j].ok /\ hist[k].now - hist[j].now < window_seconds}

OldestAt(k) ==
    CHOOSE t \in {hist[j].now : j \in StoredAt(k)} :
        \A j \in StoredAt(k) : t <= hist[j].now

OldestHasLeft(k, m) == hist[m].now - OldestAt(k) >= window_seconds

C28_IsAllowedAgreesWithRemaining ==
    [][(/\ op.name = "get_remaining"
        /\ op.now = clock
        /\ IsAllowed(op.id))
          => (result' = TRUE <=> result > 0)]_vars

\* C29: get_remaining is observationally read-only.  A run with
\* get_remaining calls inserted (any identifiers, any times) and the run of
\* the same is_allowed calls without them give the same result for every
\* is_allowed call, and at every instant the same set of identifiers with a
\* timestamp inside the window.
ActiveIdentifiers(reqs) == {i \in Identifiers : HasInWindow(reqs, i, clock)}

C29_GetRemainingIsReadOnly ==
    /\ op.name = "is_allowed" => result = shadowResult
    /\ ActiveIdentifiers(requests) = ActiveIdentifiers(shadow)

C29_Witness ==
    /\ op.name = "is_allowed"
    /\ result = TRUE
    /\ shadowResult = TRUE
    /\ \E i \in Tracked(requests) :
           /\ TimesOf(requests, i) = <<>>
           /\ TimesOf(shadow, i) # <<>>

\* C30: identifiers do not interfere while the table is within its bound.
\* A run in which other identifiers make calls and the run of the same
\* timed is_allowed calls of one identifier alone give the same result for
\* each of that identifier's is_allowed calls, as long as neither run has
\* tracked more than max_identifiers identifiers.
C30_NoInterferenceWithinBound ==
    (op.name = "is_allowed" /\ op.id = Probe /\ ~overflowed)
        => result = shadowResult

C30_Witness ==
    /\ op.name = "is_allowed"
    /\ op.id = Probe
    /\ ~overflowed
    /\ result = FALSE
    /\ shadowResult = FALSE
    /\ Cardinality(Tracked(requests)) = max_identifiers
    /\ Cardinality(Tracked(shadow)) = 1
    /\ \E i \in Others : Len(accepted[i]) = max_requests

====
